---- MODULE Spec2Model ----
(***************************************************************************)
(* Model of base-app.py: the /convert-embed/ encoder, the                  *)
(* /extract-images/ decoder and the clean_up_files background task.        *)
(*                                                                         *)
(* Text is a sequence of one-character strings, bytes are a sequence of    *)
(* integers 0..255.  The image codec (PIL, pyheif) is modelled on image    *)
(* files of four bytes <<magic, pix, dim \div 100, quality>>.  The length  *)
(* of the base64 text the codec produces for an image at a quality level   *)
(* is an input of the model (EncodedSize); the payload text the model      *)
(* carries for it is the base64 of the four-byte file.                     *)
(***************************************************************************)
EXTENDS Integers, Sequences, FiniteSets, TLC

\* ------------------------------------------------------------------ bounds

\* Largest batch the model uploads besides the over-limit batch.
MaxFiles == 3

\* Most characters a corrupted container loses from one payload.
MaxDrop == 2

\* ------------------------------------------------------------------- text

\* The element of a one-element set.  Only({f(x) : x \in {e}}) is f(e) with e
\* evaluated once, where LET x == e IN f(x) evaluates e at each use of x.
Only(S) == CHOOSE x \in S : TRUE

NL == "\n"

Alphabet == <<"A","B","C","D","E","F","G","H","I","J","K","L","M","N","O","P","Q","R","S","T","U","V","W","X","Y","Z","a","b","c","d","e","f","g","h","i","j","k","l","m","n","o","p","q","r","s","t","u","v","w","x","y","z","0","1","2","3","4","5","6","7","8","9","+","/">>

UpperCase == <<"A","B","C","D","E","F","G","H","I","J","K","L","M","N","O","P","Q","R","S","T","U","V","W","X","Y","Z">>

LowerCase == <<"a","b","c","d","e","f","g","h","i","j","k","l","m","n","o","p","q","r","s","t","u","v","w","x","y","z">>

Digits == <<"0","1","2","3","4","5","6","7","8","9">>

Whitespace == {" ", "\n", "\t", "\r"}

\* str.lower() on one character.
LowerChar(c) ==
    IF \E i \in 1..26 : UpperCase[i] = c
    THEN LowerCase[CHOOSE i \in 1..26 : UpperCase[i] = c]
    ELSE c

\* str.lower()
Lower(s) == [i \in 1..Len(s) |-> LowerChar(s[i])]

\* str.startswith(p)
StartsWith(s, p) == Len(s) >= Len(p) /\ SubSeq(s, 1, Len(p)) = p

\* str.endswith(p)
EndsWith(s, p) == Len(s) >= Len(p) /\ SubSeq(s, Len(s) - Len(p) + 1, Len(s)) = p

\* Position of the first occurrence of p in s, 0 when there is none (str.find + 1).
Find(s, p) ==
    LET hits == {i \in 1..(Len(s) - Len(p) + 1) : SubSeq(s, i, i + Len(p) - 1) = p}
    IN IF hits = {} THEN 0 ELSE CHOOSE i \in hits : \A j \in hits : i <= j

\* p in s
Contains(s, p) == Find(s, p) # 0

\* str.split(sep): every piece, left to right.
RECURSIVE Split(_, _)
Split(s, sep) ==
    LET at == Find(s, sep)
    IN IF at = 0 THEN <<s>>
       ELSE <<SubSeq(s, 1, at - 1)>> \o Split(SubSeq(s, at + Len(sep), Len(s)), sep)

\* str.split(sep, 1): at most one split, at the first occurrence of sep.
SplitOnce(s, sep) ==
    LET at == Find(s, sep)
    IN IF at = 0 THEN <<s>>
       ELSE <<SubSeq(s, 1, at - 1), SubSeq(s, at + Len(sep), Len(s))>>

\* str.strip()
Strip(s) ==
    LET keep == {i \in 1..Len(s) : s[i] \notin Whitespace}
    IN IF keep = {} THEN <<>>
       ELSE SubSeq(s, CHOOSE i \in keep : \A j \in keep : i <= j,
                      CHOOSE i \in keep : \A j \in keep : i >= j)

\* The decimal text of a natural number, as an f-string formats it.
RECURSIVE Str(_)
Str(n) == IF n < 10 THEN <<Digits[n + 1]>> ELSE Str(n \div 10) \o <<Digits[(n % 10) + 1]>>

\* ----------------------------------------------------------------- base64

IsB64Char(c) == \E i \in 1..64 : Alphabet[i] = c

B64Value(c) == (CHOOSE i \in 1..64 : Alphabet[i] = c) - 1

\* base64.b64encode(bytes).decode('utf-8'): three bytes to four characters,
\* the last group padded with '='.
RECURSIVE B64Encode(_)
B64Encode(bytes) ==
    IF Len(bytes) = 0 THEN <<>>
    ELSE IF Len(bytes) = 1 THEN
        <<Alphabet[(bytes[1] \div 4) + 1], Alphabet[((bytes[1] % 4) * 16) + 1], "=", "=">>
    ELSE IF Len(bytes) = 2 THEN
        <<Alphabet[(bytes[1] \div 4) + 1],
          Alphabet[((bytes[1] % 4) * 16 + bytes[2] \div 16) + 1],
          Alphabet[((bytes[2] % 16) * 4) + 1], "=">>
    ELSE
        <<Alphabet[(bytes[1] \div 4) + 1],
          Alphabet[((bytes[1] % 4) * 16 + bytes[2] \div 16) + 1],
          Alphabet[((bytes[2] % 16) * 4 + bytes[3] \div 64) + 1],
          Alphabet[(bytes[3] % 64) + 1]>>
        \o B64Encode(SubSeq(bytes, 4, Len(bytes)))

\* The scan of binascii.a2b_base64 in its non-strict mode, which is what
\* base64.b64decode(s) runs: characters outside the alphabet are skipped, a
\* complete pad sequence ends the scan, and data left in an unfinished group
\* of four is an error.  st = [quad, pads, left, out, stop].
B64Scan(st, c) ==
    IF st.stop THEN st
    ELSE IF c = "=" THEN
        IF st.quad >= 2 /\ st.quad + st.pads + 1 >= 4
        THEN [st EXCEPT !.pads = st.pads + 1, !.stop = TRUE, !.quad = 0]
        ELSE [st EXCEPT !.pads = IF st.quad >= 2 THEN st.pads + 1 ELSE st.pads]
    ELSE IF ~IsB64Char(c) THEN st
    ELSE LET v == B64Value(c)
         IN CASE st.quad = 0 -> [st EXCEPT !.pads = 0, !.quad = 1, !.left = v]
              [] st.quad = 1 -> [st EXCEPT !.pads = 0, !.quad = 2, !.left = v % 16,
                                           !.out = Append(st.out, st.left * 4 + v \div 16)]
              [] st.quad = 2 -> [st EXCEPT !.pads = 0, !.quad = 3, !.left = v % 4,
                                           !.out = Append(st.out, st.left * 16 + v \div 4)]
              [] OTHER       -> [st EXCEPT !.pads = 0, !.quad = 0, !.left = 0,
                                           !.out = Append(st.out, st.left * 64 + v)]

RECURSIVE B64ScanAll(_, _)
B64ScanAll(st, s) == IF Len(s) = 0 THEN st ELSE B64ScanAll(B64Scan(st, Head(s)), Tail(s))

\* base64.b64decode(s): [ok, bytes]; ok is FALSE where binascii.Error is raised.
b64decode(s) ==
    LET st == B64ScanAll([quad |-> 0, pads |-> 0, left |-> 0, out |-> <<>>, stop |-> FALSE], s)
    IN [ok |-> st.quad = 0, bytes |-> st.out]

\* ------------------------------------------------------------ image codec

JPEG == <<"J","P","E","G">>
PNG  == <<"P","N","G">>
HEIC == <<"H","E","I","C">>

\* First byte of an image file of each format.
Magic(fmt) == CASE fmt = JPEG -> 255 [] fmt = PNG -> 137 [] OTHER -> 102

\* The qualities the encoder can reach: 85, 80, ..., 10.
Qualities == {10 + 5 * k : k \in 0..15}

\* Quality PIL's JPEG writer uses when save() is given none.
DefaultQuality == 75

NoImage == [format |-> <<>>, pix |-> 0, dim |-> 0]

\* Image.open(io.BytesIO(content)): [ok, image]; ok is FALSE where PIL raises
\* (cannot identify image file).  PIL has no HEIC reader.
ImageOpen(content) ==
    IF Len(content) = 4 /\ content[1] \in {Magic(JPEG), Magic(PNG)}
    THEN [ok |-> TRUE,
          image |-> [format |-> IF content[1] = Magic(JPEG) THEN JPEG ELSE PNG,
                     pix |-> content[2], dim |-> content[3] * 100]]
    ELSE [ok |-> FALSE, image |-> NoImage]

\* pyheif.read_heif + Image.frombytes: an image with no format of its own.
open_heic_image(content) ==
    IF Len(content) = 4 /\ content[1] = Magic(HEIC)
    THEN [ok |-> TRUE,
          image |-> [format |-> <<>>, pix |-> content[2], dim |-> content[3] * 100]]
    ELSE [ok |-> FALSE, image |-> NoImage]

\* image.thumbnail((max_dimension, max_dimension)): the longer side is cut to 800.
max_dimension == 800

thumbnail(image) ==
    [image EXCEPT !.dim = IF image.dim > max_dimension THEN max_dimension ELSE image.dim]

\* The length of the base64 text the codec produces for picture pix at each
\* quality level: constant, linear in the quality, or not monotone, with the
\* sizes next to the budget among them (5242880 and 5242881).
EncodedSize(pix, quality) ==
    CASE pix = 1 -> 1000000
      [] pix = 2 -> 70000 * quality
      [] pix = 3 -> IF quality > 50 THEN 5242881
                    ELSE IF quality = 50 THEN 5242880
                    ELSE IF quality >= 30 THEN 6000000
                    ELSE 100000
      [] pix = 4 -> 40000 * quality + 1000000
      [] OTHER   -> 2000000

\* image.save(buffer, format=format, quality=quality): the bytes of the file.
\* Only the JPEG writer uses quality.
ImageSave(image, format, quality) ==
    <<Magic(format), image.pix, image.dim \div 100, IF format = JPEG THEN quality ELSE 0>>

\* encode_image_to_base64(image, format, quality): the base64 text, and the
\* length len(encoded_image.encode('utf-8')) that text has.
encode_image_to_base64(image, format, quality) ==
    [text |-> B64Encode(ImageSave(image, format, quality)),
     size |-> EncodedSize(image.pix, quality)]

\* --------------------------------------------------------------- uploads

\* An UploadFile: filename, content_type and the bytes file.read() returns.
Upload(filename, content_type, content) ==
    [filename |-> filename, content_type |-> content_type, content |-> content]

FileSet ==
    { Upload(<<"a",".","p","n","g">>, "image/png", <<Magic(PNG), 1, 4, 0>>),
      Upload(<<"b",".","j","p","g">>, "image/jpeg", <<Magic(JPEG), 2, 16, 90>>),
      Upload(<<"c",":","d",".","j","p","g">>, "image/jpeg", <<Magic(JPEG), 3, 8, 90>>),
      Upload(<<"e",".","H","E","I","C">>, "application/octet-stream", <<Magic(HEIC), 4, 16, 0>>),
      Upload(<<"g",".","j","p","g">>, "image/heic", <<Magic(HEIC), 5, 4, 0>>),
      Upload(<<"b","a","d",".","p","n","g">>, "image/png", <<0, 6, 4, 0>>) }

\* The batches a client uploads: every batch of 1 to MaxFiles files, and
\* batches of eleven and of twelve files.
Batches ==
    UNION {[1..n -> FileSet] : n \in 1..MaxFiles}
    \cup {[i \in 1..n |-> Upload(<<"a",".","p","n","g">>, "image/png", <<Magic(PNG), 1, 4, 0>>)]
            : n \in {11, 12}}

OutputNames == {<<"o","u","t">>}

\* ---------------------------------------------------------------- encoder

max_total_size == 5 * 1024 * 1024

\* The count check with its limit off by one.
TooManyFilesOffByOne(fs) == Len(fs) > 11

\* len(files) > 10
TooManyFiles(fs) == Len(fs) > 10

\* file.filename.lower().endswith(".heic") or file.content_type == "image/heic"
IsHeic(file) ==
    \/ EndsWith(Lower(file.filename), <<".","h","e","i","c">>)
    \/ file.content_type = "image/heic"

\* The loop with the budget compared by >= where the code compares by >.
RECURSIVE QualityLoopStrict(_, _, _, _, _)
QualityLoopStrict(image, image_format, total, quality, tried) ==
    LET enc == encode_image_to_base64(image, image_format, quality)
    IN IF total + enc.size >= max_total_size /\ quality > 10
       THEN QualityLoopStrict(image, image_format, total, quality - 5,
                              Append(tried, quality))
       ELSE [encoded_image |-> enc.text, image_size |-> enc.size,
             quality |-> quality, tried |-> Append(tried, quality)]

\* The while True loop of lines 77-85, entered with a quality and the
\* qualities already tried: encode, and step the quality down by 5 while the
\* running total plus the encoded size is over the budget and quality > 10.
RECURSIVE QualityLoop(_, _, _, _, _)
QualityLoop(image, image_format, total, quality, tried) ==
    LET enc == encode_image_to_base64(image, image_format, quality)
    IN IF total + enc.size > max_total_size /\ quality > 10
       THEN QualityLoop(image, image_format, total, quality - 5, Append(tried, quality))
       ELSE [encoded_image |-> enc.text, image_size |-> enc.size,
             quality |-> quality, tried |-> Append(tried, quality)]

\* quality = 85, then the loop: each image starts afresh.
QualitySearch(image, image_format, total) ==
    QualityLoop(image, image_format, total, 85, <<>>)

\* f"Filename: {output_file_name}\n\n"
HeaderText(output_file_name) ==
    <<"F","i","l","e","n","a","m","e",":"," ">> \o output_file_name \o <<NL, NL>>

\* f"Image {idx + 1} ({file.filename}):\n{encoded_image}\n\n"
BlockText(idx, filename, encoded_image) ==
    <<"I","m","a","g","e"," ">> \o Str(idx + 1) \o <<" ","(">> \o filename
    \o <<")",":",NL>> \o encoded_image \o <<NL, NL>>

\* The try body of lines 60-95 for one file: what it raises ("none" when it
\* runs through) and what it leaves in total_size and text_content.
\* text_len is the length text_content has with each payload at its own
\* image_size; searches keeps what the quality loop returned for each image
\* and encodes counts the calls of encode_image_to_base64.
TryBody(st, idx, file) ==
    Only({
        IF ~opened.ok
        THEN [st EXCEPT !.raised = "CodecError"]
        ELSE Only({
            IF st.total_size + found.image_size > max_total_size
            THEN [st EXCEPT !.raised = "SizeExceeded", !.searches = Append(st.searches, found),
                            !.encodes = st.encodes + Len(found.tried)]
            ELSE LET block == BlockText(idx, file.filename, found.encoded_image)
                 IN [st EXCEPT !.raised = "none", !.searches = Append(st.searches, found),
                               !.encodes = st.encodes + Len(found.tried),
                               !.total_size = st.total_size + found.image_size,
                               !.text_content = st.text_content \o block,
                               !.text_len = st.text_len + Len(block)
                                            - Len(found.encoded_image) + found.image_size]
          : found \in {QualitySearch(thumbnail(opened.image),
                                     IF IsHeic(file) THEN JPEG ELSE opened.image.format,
                                     st.total_size)} })
      : opened \in {IF IsHeic(file) THEN open_heic_image(file.content)
                    ELSE ImageOpen(file.content)} })

\* except Exception as e (line 97): every exception of the try body, the
\* HTTPException of line 88 included, leaves as the HTTPException of line 98.
ExceptHandler(raised, file) ==
    IF raised = "none" THEN [kind |-> "none", filename |-> <<>>, cause |-> "none"]
    ELSE [kind |-> "CannotProcess", filename |-> file.filename, cause |-> raised]

\* The state convert_embed_images holds after line 56.
EncStart(output_file_name) ==
    [text_content |-> HeaderText(output_file_name),
     text_len |-> Len(HeaderText(output_file_name)),
     total_size |-> 0, raised |-> "none", searches |-> <<>>, encodes |-> 0]

EncIdle ==
    [text_content |-> <<>>, text_len |-> 0, total_size |-> 0, raised |-> "none",
     searches |-> <<>>, encodes |-> 0]

\* The for loop of lines 58-98 from file idx on, run to its end or to the
\* first file that raises.
RECURSIVE EncodeLoop(_, _, _)
EncodeLoop(st, fs, idx) ==
    IF idx >= Len(fs) \/ st.raised # "none" THEN st
    ELSE Only({EncodeLoop(next, fs, idx + 1) : next \in {TryBody(st, idx, fs[idx + 1])}})

\* The text convert_embed_images writes for a batch it accepts.
ContainerOf(fs, output_file_name) ==
    EncodeLoop(EncStart(output_file_name), fs, 0).text_content

\* ---------------------------------------------------------------- decoder

output_dir == <<"e","x","t","r","a","c","t","e","d","_","i","m","a","g","e","s">>

zip_filename == <<"e","x","t","r","a","c","t","e","d","_","i","m","a","g","e","s",".","z","i","p">>

ImageFile(bytes) == [kind |-> "image", bytes |-> bytes, entries |-> <<>>]

ZipFile(entries) == [kind |-> "zip", bytes |-> <<>>, entries |-> entries]

\* The format PIL's save(path) takes from the extension of the path.
FormatOfExtension(ext) == IF ext = <<"p","n","g">> THEN PNG ELSE JPEG

\* The extension taken from img.format as it is, not lower-cased.
img_formatNoLower(img) ==
    IF img.format = <<>> THEN <<"j","p","e","g">> ELSE img.format

\* img.format.lower() or "jpeg"
img_format(img) ==
    IF Lower(img.format) = <<>> THEN <<"j","p","e","g">> ELSE Lower(img.format)

\* f"extracted_image_{idx + 1}.{img_format}", the name inside output_dir.
ImageName(idx, ext) ==
    <<"e","x","t","r","a","c","t","e","d","_","i","m","a","g","e","_">>
    \o Str(idx + 1) \o <<".">> \o ext

\* The try body of lines 122-129 for the block at position idx of the split:
\* ok is FALSE where it raises.  header, encoded_img and img_data are the
\* locals of that name.
ExtractBlock(block, idx) ==
    LET none == [ok |-> FALSE, idx |-> idx, header |-> <<>>, encoded_img |-> <<>>,
                 img_data |-> <<>>, format |-> <<>>, name |-> <<>>, saved |-> <<>>,
                 cause |-> "ValueError"]
    IN Only({
        IF Len(parts) # 2 THEN [none EXCEPT !.header = parts[1]]
        ELSE Only({
            IF ~decoded.ok
            THEN [none EXCEPT !.header = parts[1], !.encoded_img = Strip(parts[2]),
                              !.cause = "binascii.Error"]
            ELSE Only({
                IF ~opened.ok
                THEN [none EXCEPT !.header = parts[1], !.encoded_img = Strip(parts[2]),
                                  !.img_data = decoded.bytes,
                                  !.cause = "UnidentifiedImageError"]
                ELSE LET ext == img_format(opened.image)
                     IN [ok |-> TRUE, idx |-> idx, header |-> parts[1],
                         encoded_img |-> Strip(parts[2]),
                         img_data |-> decoded.bytes, format |-> opened.image.format,
                         name |-> ImageName(idx, ext),
                         saved |-> ImageSave(opened.image, FormatOfExtension(ext),
                                             DefaultQuality),
                         cause |-> "none"]
              : opened \in {ImageOpen(decoded.bytes)} })
          : decoded \in {b64decode(Strip(parts[2]))} })
      : parts \in {SplitOnce(block, <<":">>)} })

NoError == [kind |-> "none", index |-> 0, cause |-> "none"]

\* The for loop of lines 118-131 from position idx on.  st = [files,
\* extracted_images, log, error]: the files of output_dir, the paths collected,
\* what each retained block gave, and the HTTPException of line 131.
RECURSIVE ExtractLoop(_, _, _)
ExtractLoop(blocks, idx, st) ==
    IF idx >= Len(blocks) THEN st
    ELSE IF ~StartsWith(blocks[idx + 1], <<"I","m","a","g","e">>)
    THEN ExtractLoop(blocks, idx + 1, st)
    ELSE Only({
        IF ~b.ok
        THEN [st EXCEPT !.log = Append(st.log, b),
                        !.error = [kind |-> "ErrorProcessing", index |-> idx + 1,
                                   cause |-> b.cause]]
        ELSE Only({ExtractLoop(blocks, idx + 1, next) : next \in {
                [st EXCEPT !.files = (b.name :> ImageFile(b.saved)) @@ st.files,
                           !.extracted_images = Append(st.extracted_images, b.name),
                           !.log = Append(st.log, b)]}})
      : b \in {ExtractBlock(blocks[idx + 1], idx)} })

\* zipf.write(img, os.path.basename(img)) for img in extracted_images.
ZipEntries(files, extracted_images) ==
    [i \in 1..Len(extracted_images) |->
        [name |-> extracted_images[i], bytes |-> files[extracted_images[i]].bytes]]

\* extract_images_from_text after content is read (lines 110-143) on the
\* directory d = [exists, files].  status is "responding" where the
\* FileResponse is returned and clean_up_files was added as background task,
\* "failed" where line 131 raises.  I/O errors of the file system are not
\* modelled.
Extract(content, d) ==
    Only({
        IF st.error.kind # "none"
        THEN [dir |-> [exists |-> TRUE, files |-> st.files], status |-> "failed",
              error |-> st.error, extracted_images |-> st.extracted_images,
              log |-> st.log]
        ELSE [dir |-> [exists |-> TRUE,
                       files |-> (zip_filename :>
                                     ZipFile(ZipEntries(st.files, st.extracted_images)))
                                 @@ st.files],
              status |-> "responding", error |-> NoError,
              extracted_images |-> st.extracted_images, log |-> st.log]
      : st \in {ExtractLoop(Split(content, <<NL, NL>>), 0,
                    [files |-> IF d.exists THEN d.files ELSE <<>>,
                     extracted_images |-> <<>>, log |-> <<>>, error |-> NoError])} })

\* clean_up_files(directory): every file removed, then the directory.
\* os.listdir raises where the directory is gone.
clean_up_files(d) ==
    IF d.exists THEN [ok |-> TRUE, dir |-> [exists |-> FALSE, files |-> <<>>]]
    ELSE [ok |-> FALSE, dir |-> d]

\* A container that lost the last drop characters of the payload of its
\* block labelled 'Image k'.
Corrupt(content, k, drop) ==
    LET blocks == Split(content, <<NL, NL>>)
        cut(b) == SubSeq(b, 1, Len(b) - drop)
        RECURSIVE Join(_)
        Join(i) == IF i > Len(blocks) THEN <<>>
                   ELSE (IF i = k + 1 THEN cut(blocks[i]) ELSE blocks[i])
                        \o (IF i < Len(blocks) THEN <<NL, NL>> ELSE <<>>)
                        \o Join(i + 1)
    IN Join(1)

\* ------------------------------------------------------------------ state

Reqs == {1, 2}

VARIABLES
    files,              \* the batch of the encode request
    output_file_name,   \* its output_file_name
    encPc,              \* "off", "start", "loop", "done", "failed"
    idx,                \* position of the for loop of line 58
    enc,                \* text_content, total_size, ... of the encode request
    nRead,              \* files read so far (line 59)
    encError,           \* the HTTPException the encode request ended with
    output_txt_file,    \* the file of line 101: [written, text, size]
    encResponse,        \* TRUE once the FileResponse of line 106 is returned
    decPc,              \* per decode request: "idle", "received", "responding",
                        \* "failed", "delivered", "deliverFailed", "done",
                        \* "cleanupFailed"
    decInput,           \* per decode request: the container it was sent
    corrupt,            \* per decode request: [k, drop] of Corrupt, k = 0 if intact
    dec,                \* per decode request: what Extract returned
    delivered,          \* per decode request: the archive the client received
    dir                 \* the directory extracted_images: [exists, files]

vars == <<files, output_file_name, encPc, idx, enc, nRead, encError,
          output_txt_file, encResponse, decPc, decInput, corrupt, dec,
          delivered, dir>>

encVars == <<files, output_file_name, encPc, idx, enc, nRead, encError,
             output_txt_file, encResponse>>

decVars == <<decPc, decInput, corrupt, dec, delivered, dir>>

NoEncError == [kind |-> "none", filename |-> <<>>, cause |-> "none"]

NoDec == [dir |-> [exists |-> FALSE, files |-> <<>>], status |-> "none",
          error |-> NoError, extracted_images |-> <<>>, log |-> <<>>]

NoArchive == [present |-> FALSE, entries |-> <<>>]

InitDecoders(pc, input) ==
    /\ decPc = pc
    /\ decInput = input
    /\ corrupt = [r \in Reqs |-> [k |-> 0, drop |-> 0]]
    /\ dec = [r \in Reqs |-> NoDec]
    /\ delivered = [r \in Reqs |-> NoArchive]
    /\ dir = [exists |-> FALSE, files |-> <<>>]

\* One encode request is about to be handled; no decode request was sent.
Init ==
    /\ files \in Batches
    /\ output_file_name \in OutputNames
    /\ encPc = "start"
    /\ idx = 0
    /\ enc = EncIdle
    /\ nRead = 0
    /\ encError = NoEncError
    /\ output_txt_file = [written |-> FALSE, text |-> <<>>, size |-> 0]
    /\ encResponse = FALSE
    /\ InitDecoders([r \in Reqs |-> "idle"], [r \in Reqs |-> <<>>])

\* ---------------------------------------------------------------- actions

\* convert_embed_images, lines 49-56: the count check, then the header.
EncCheck ==
    /\ encPc = "start"
    /\ IF TooManyFiles(files)
       THEN /\ encPc' = "failed"
            /\ encError' = [kind |-> "TooManyFiles", filename |-> <<>>, cause |-> "none"]
            /\ enc' = enc
       ELSE /\ encPc' = "loop"
            /\ encError' = encError
            /\ enc' = EncStart(output_file_name)
    /\ UNCHANGED <<files, output_file_name, idx, nRead, output_txt_file, encResponse>>
    /\ UNCHANGED decVars

\* One pass of the for loop, lines 58-98: await file.read(), the try body
\* and the except clause.
EncFile ==
    /\ encPc = "loop"
    /\ idx < Len(files)
    /\ \E st \in {TryBody(enc, idx, files[idx + 1])} :
          /\ enc' = st
          /\ encError' = ExceptHandler(st.raised, files[idx + 1])
          /\ encPc' = IF st.raised = "none" THEN "loop" ELSE "failed"
    /\ nRead' = nRead + 1
    /\ idx' = idx + 1
    /\ UNCHANGED <<files, output_file_name, output_txt_file, encResponse>>
    /\ UNCHANGED decVars

\* Lines 100-106: the container is written to ./{output_file_name}.txt and
\* returned.
EncFinish ==
    /\ encPc = "loop"
    /\ idx = Len(files)
    /\ output_txt_file' = [written |-> TRUE, text |-> enc.text_content,
                           size |-> enc.text_len]
    /\ encResponse' = TRUE
    /\ encPc' = "done"
    /\ UNCHANGED <<files, output_file_name, idx, enc, nRead, encError>>
    /\ UNCHANGED decVars

\* A client sends request r the container the encoder returned, intact or
\* with the payload of one block cut short (line 109, content = file.read()).
DecRequest(r) ==
    /\ encPc = "done"
    /\ decPc[r] = "idle"
    /\ \E k \in 0..Len(files) : \E drop \in 0..MaxDrop :
          /\ (k = 0) = (drop = 0)
          /\ corrupt' = [corrupt EXCEPT ![r] = [k |-> k, drop |-> drop]]
          /\ decInput' = [decInput EXCEPT ![r] =
                 IF k = 0 THEN output_txt_file.text
                 ELSE Corrupt(output_txt_file.text, k, drop)]
    /\ decPc' = [decPc EXCEPT ![r] = "received"]
    /\ UNCHANGED <<dec, delivered, dir>>
    /\ UNCHANGED encVars

\* extract_images_from_text, lines 110-143, which has no await in it.
DecHandler(r) ==
    /\ decPc[r] = "received"
    /\ \E res \in {Extract(decInput[r], dir)} :
          /\ dec' = [dec EXCEPT ![r] = res]
          /\ dir' = res.dir
          /\ decPc' = [decPc EXCEPT ![r] = res.status]
    /\ UNCHANGED <<decInput, corrupt, delivered>>
    /\ UNCHANGED encVars

\* The FileResponse of line 143 is sent: the file at zip_path is read now,
\* and the response fails where it is gone.
Deliver(r) ==
    /\ decPc[r] = "responding"
    /\ IF dir.exists /\ zip_filename \in DOMAIN dir.files
       THEN /\ delivered' = [delivered EXCEPT ![r] =
                   [present |-> TRUE, entries |-> dir.files[zip_filename].entries]]
            /\ decPc' = [decPc EXCEPT ![r] = "delivered"]
       ELSE /\ delivered' = delivered
            /\ decPc' = [decPc EXCEPT ![r] = "deliverFailed"]
    /\ UNCHANGED <<decInput, corrupt, dec, dir>>
    /\ UNCHANGED encVars

\* The background task of line 141 runs once the response was sent.
Cleanup(r) ==
    /\ decPc[r] = "delivered"
    /\ LET res == clean_up_files(dir)
       IN /\ dir' = res.dir
          /\ decPc' = [decPc EXCEPT ![r] = IF res.ok THEN "done" ELSE "cleanupFailed"]
    /\ UNCHANGED <<decInput, corrupt, dec, delivered>>
    /\ UNCHANGED encVars

\* One encode request, then one decode request of what it returned.
Next ==
    \/ EncCheck
    \/ EncFile
    \/ EncFinish
    \/ DecRequest(1)
    \/ DecHandler(1)
    \/ Deliver(1)
    \/ Cleanup(1)

Spec == Init /\ [][Next]_vars

\* ------------------------------------------- two concurrent decode requests

A_PNG == Upload(<<"a",".","p","n","g">>, "image/png", <<Magic(PNG), 1, 4, 0>>)

B_JPG == Upload(<<"b",".","j","p","g">>, "image/jpeg", <<Magic(JPEG), 2, 16, 90>>)

E_HEIC == Upload(<<"e",".","H","E","I","C">>, "application/octet-stream", <<Magic(HEIC), 4, 16, 0>>)

\* Containers the encoder returned, and one that lost the end of its second
\* payload.
DecContainers ==
    { ContainerOf(<<A_PNG>>, <<"o","u","t">>),
      ContainerOf(<<A_PNG, B_JPG>>, <<"o","u","t">>),
      ContainerOf(<<E_HEIC>>, <<"o","u","t">>),
      Corrupt(ContainerOf(<<A_PNG, B_JPG>>, <<"o","u","t">>), 2, 1) }

\* Two decode requests were received, each with its container; no encode
\* request runs.
InitDec ==
    /\ files = <<>>
    /\ output_file_name = <<>>
    /\ encPc = "off"
    /\ idx = 0
    /\ enc = EncIdle
    /\ nRead = 0
    /\ encError = NoEncError
    /\ output_txt_file = [written |-> FALSE, text |-> <<>>, size |-> 0]
    /\ encResponse = FALSE
    /\ \E input \in [Reqs -> DecContainers] :
          InitDecoders([r \in Reqs |-> "received"], input)

NextDec == \E r \in Reqs : DecHandler(r) \/ Deliver(r) \/ Cleanup(r)

SpecDec == InitDec /\ [][NextDec]_vars

\* ----------------------------------------------------------------- claims

Handled(r) == decPc[r] \notin {"idle", "received"}

Succeeded(r) == decPc[r] \in {"responding", "delivered", "deliverFailed", "done", "cleanupFailed"}

\* The archive request r built: the entries of the zip file its handler wrote.
ArchiveOf(r) == ZipEntries(dec[r].dir.files, dec[r].extracted_images)

\* The label the encoder writes for the i-th file, up to the filename.
LabelStart(i) == <<"I","m","a","g","e"," ">> \o Str(i) \o <<" ","(">>

\* The payload the encoder wrote into the block of the i-th file.
PayloadWritten(i) ==
    LET block == Split(output_txt_file.text, <<NL, NL>>)[i + 1]
        label == LabelStart(i) \o files[i].filename \o <<")",":",NL>>
    IN SubSeq(block, Len(label) + 1, Len(block))

\* C1: an encode request that returns a container returns one of at most
\* 5,242,880 bytes.
C1_ContainerWithinBudget ==
    encPc = "done" => output_txt_file.size <= 5242880

\* C2: when decode accepts the container encode produced for n files, the
\* archive holds for every i in 1..n an entry named extracted_image_{i} with
\* the picture of the i-th uploaded file.
C2_ExtractedMatchesUploaded ==
    (Succeeded(1) /\ corrupt[1].k = 0) =>
        \A i \in 1..Len(files) :
            \E j \in 1..Len(ArchiveOf(1)) :
                /\ StartsWith(ArchiveOf(1)[j].name, ImageName(i - 1, <<>>))
                /\ ImageOpen(ArchiveOf(1)[j].bytes).image.pix = files[i].content[2]

\* C3: an encode request with more than 10 files fails with the count error
\* and at no time reads a file, encodes an image, or writes or returns a
\* container.
C3_TooManyFailsFirst ==
    Len(files) > 10 =>
        /\ nRead = 0
        /\ enc.encodes = 0
        /\ enc.text_content = <<>>
        /\ ~output_txt_file.written
        /\ ~encResponse
        /\ encPc \in {"start", "failed"}
        /\ encPc = "failed" => encError.kind = "TooManyFiles"

\* A request of eleven files that was refused.
C3_Witness == Len(files) = 11 /\ encPc = "failed" /\ encError.kind = "TooManyFiles"

\* The last block the decoder of request r worked on is the block labelled
\* 'Image k' and its payload was not valid base64.
BadBase64InBlock(r, k) ==
    /\ Len(dec[r].log) > 0
    /\ LET b == dec[r].log[Len(dec[r].log)]
       IN /\ ~b.ok
          /\ b.cause = "binascii.Error"
          /\ StartsWith(b.header, LabelStart(k))

\* C4: decoding a container whose block labelled 'Image k' has a payload that
\* is not valid base64 fails with an error that names index k, and no archive
\* is written.
C4_ErrorNamesBlock ==
    (Handled(1) /\ corrupt[1].k # 0 /\ BadBase64InBlock(1, corrupt[1].k)) =>
        /\ decPc[1] = "failed"
        /\ dec[1].error.index = corrupt[1].k
        /\ zip_filename \notin DOMAIN dir.files

\* C5: for the block of a file whose filename contains ':', the payload the
\* decoder splits off is the payload the encoder wrote, and the bytes it
\* decodes are the bytes of the encoded image.
C5_ColonKeepsPayload ==
    (Handled(1) /\ corrupt[1].k = 0) =>
        \A j \in 1..Len(dec[1].log) :
            LET b == dec[1].log[j]
            IN Contains(files[b.idx].filename, <<":">>) =>
                  /\ b.encoded_img = PayloadWritten(b.idx)
                  /\ b.img_data = b64decode(PayloadWritten(b.idx)).bytes

\* C6, on the exit path of an error while extracting a later block after
\* earlier blocks were written: when the handling of the request is over, the
\* directory extracted_images and the files the request wrote into it are gone.
C6_CleanedAfterLaterBlockError ==
    (decPc[1] = "failed" /\ Len(dec[1].extracted_images) >= 1) =>
        /\ ~dir.exists
        /\ \A j \in 1..Len(dec[1].extracted_images) :
              dec[1].extracted_images[j] \notin DOMAIN dir.files

\* C7: when running total plus encoded size is over the budget at quality 10,
\* the request fails with the size-exceeded error, not the cannot-process
\* error, and no container is written or returned.
C7_SizeExceededError ==
    (/\ encPc = "failed"
     /\ Len(enc.searches) > 0
     /\ enc.searches[Len(enc.searches)].quality = 10
     /\ enc.total_size + enc.searches[Len(enc.searches)].image_size > 5242880) =>
        /\ encError.kind = "SizeExceeded"
        /\ ~output_txt_file.written
        /\ ~encResponse

\* C8: with two decode requests interleaved, the archive a request is sent
\* exists when it is sent and holds exactly the files that request extracted.
C8_OwnArchiveDelivered ==
    \A r \in Reqs :
        /\ decPc[r] # "deliverFailed"
        /\ delivered[r].present => delivered[r].entries = ArchiveOf(r)

\* The extension of a file name: what follows its last '.'.
Extension(name) ==
    LET dots == {i \in 1..Len(name) : name[i] = "."}
    IN SubSeq(name, (CHOOSE i \in dots : \A j \in dots : i >= j) + 1, Len(name))

HeicLabel(b) == Contains(Lower(b.header), <<"h","e","i","c">>)

\* C9 as claimed: a block whose label contains 'heic' is written with the
\* extension heic and with the decoded bytes unmodified.
C9_HeicWrittenRaw ==
    Handled(1) =>
        \A j \in 1..Len(dec[1].log) :
            LET b == dec[1].log[j]
            IN (b.ok /\ HeicLabel(b)) =>
                  /\ Extension(b.name) = <<"h","e","i","c">>
                  /\ dec[1].dir.files[b.name].bytes = b.img_data

\* C9 as amended: every block the decoder writes, its label containing 'heic'
\* or not, is opened by the image codec and written re-encoded, under the
\* detected format in lower case as extension.
C9_ExtensionFromCodec ==
    Handled(1) =>
        \A j \in 1..Len(dec[1].log) :
            LET b == dec[1].log[j]
            IN b.ok =>
                  /\ ImageOpen(b.img_data).ok
                  /\ Extension(b.name) \in {<<"j","p","e","g">>, <<"p","n","g">>}
                  /\ Extension(b.name) = Lower(ImageOpen(b.img_data).image.format)
                  /\ dec[1].dir.files[b.name].bytes =
                        ImageSave(ImageOpen(b.img_data).image,
                                  ImageOpen(b.img_data).image.format, 75)

\* A block with 'heic' in its label that the decoder wrote, re-encoded.
C9_Witness ==
    /\ Handled(1)
    /\ \E j \in 1..Len(dec[1].log) :
          /\ dec[1].log[j].ok
          /\ HeicLabel(dec[1].log[j])
          /\ dec[1].dir.files[dec[1].log[j].name].bytes # dec[1].log[j].img_data

\* The running total the j-th image of the request was searched under.
RECURSIVE TotalBefore(_)
TotalBefore(j) == IF j <= 1 THEN 0 ELSE TotalBefore(j - 1) + enc.searches[j - 1].image_size

Fits(j, q) == TotalBefore(j) + EncodedSize(files[j].content[2], q) <= 5242880

\* C10: the search of every image starts at 85, tries 85, 80, ... in this
\* order, at most 16 qualities, and ends at the highest of 85, 80, ..., 10
\* that fits the budget under the running total, or at 10 when none fits.
C10_QualitySearch ==
    \A j \in 1..Len(enc.searches) :
        LET s == enc.searches[j]
            fitting == {q \in Qualities : Fits(j, q)}
        IN /\ Len(s.tried) \in 1..16
           /\ \A t \in 1..Len(s.tried) : s.tried[t] = 85 - 5 * (t - 1)
           /\ s.quality = s.tried[Len(s.tried)]
           /\ s.image_size = EncodedSize(files[j].content[2], s.quality)
           /\ IF fitting = {} THEN s.quality = 10
              ELSE /\ s.quality \in fitting
                   /\ \A q \in fitting : q <= s.quality

\* An image searched from 85 again after an earlier image ended lower, one
\* search that ends between 85 and 10, and one that tries all 16 qualities.
C10_Witness ==
    /\ Len(enc.searches) >= 2
    /\ enc.searches[1].quality < 85
    /\ enc.searches[1].quality > 10
    /\ enc.searches[2].tried[1] = 85
    /\ Len(enc.searches[2].tried) = 16

====
